---- MODULE Spec2Model ----
(***************************************************************************)
(* Fingerprint authentication service: enrollment, login, refresh-token   *)
(* sessions and their revocation (userService of the SIFT variant, the    *)
(* relational schema and the extractor/comparator helpers).               *)
(*                                                                         *)
(* Time is counted in seconds.  Similarities are counted in hundredths.   *)
(* Every step of a handler between two awaits is one action; the database *)
(* executes one statement atomically.                                     *)
(***************************************************************************)
EXTENDS Integers, FiniteSets, Sequences, TLC

VARIABLES users, sessions, now, nextUserId, nextSessionId,
          cproc, lproc, dproc, last, revoked, match, child

vars == <<users, sessions, now, nextUserId, nextSessionId,
          cproc, lproc, dproc, last, revoked, match, child>>

(***************************************************************************)
(* Bounds of the model                                                     *)
(***************************************************************************)
MaxUserId == 2
MaxSessionId == 2
NumCreateProcs == 2
NumLoginProcs == 2
MaxInFlight == 2

(***************************************************************************)
(* Program constants                                                       *)
(***************************************************************************)
Day == 86400
RefreshLifetime == 10 * Day
\* Variant: the access token lives 25 hours.
AccessLifetimeInHours == 25 * 3600

AccessLifetime == 25 * 60
TemplateLifetime == 365 * Day
MinEnrollmentFeatures == 50
MinLoginFeatures == 30
SIMILARITY_THRESHOLD == 30
MIN_MATCHES == 15

(***************************************************************************)
(* Input domains                                                           *)
(***************************************************************************)
None == "none"
Emails == {"e1", "e2"}
Nicks == {"n1", "n2"}
RoleInputs == {1, 2, 4}
Images == {"img"}
NoImage == "noimage"
Instants == {0, 1, RefreshLifetime, TemplateLifetime}
EnrollFeatureCounts == {49, 50}
LoginFeatureCounts == {29, 30}
Similarities == {29, 30}
GoodMatches == {14, 15}
CreateProcs == 1..NumCreateProcs
LoginProcs == 1..NumLoginProcs
UserIds == 1..MaxUserId

(***************************************************************************)
(* Secrets: the three signing keys of the service                          *)
(***************************************************************************)
JWT_SECRET_ACCESS == "access"
\* Variant: the refresh secret is the access secret.
RefreshSecretShared == JWT_SECRET_ACCESS

JWT_REFRESH_SECRET == "refresh"
JWT_TEMPLATE_SECRET == "template"
ForgedKey == "forged"

(***************************************************************************)
(* jsonwebtoken: sign adds iat and exp = iat + lifetime and signs with a   *)
(* key; verify accepts a token signed with the same key whose exp is      *)
(* still in the future.  HS256 is deterministic: equal payload, iat and   *)
(* key give the same token.                                                *)
(***************************************************************************)
\* Variant: the expiry is not consulted (ignoreExpiration).
JwtVerifyIgnoreExpiration(token, key, lifetime, t) == token.key = key

JwtVerify(token, key, lifetime, t) ==
    /\ token.key = key
    /\ t < token.iat + lifetime

SignRefresh(u, t) == [key |-> JWT_REFRESH_SECRET, userpk |-> u.id, iat |-> t]

SignAccess(u, t) ==
    [key |-> JWT_SECRET_ACCESS, userpk |-> u.id, usernickname |-> u.nick,
     userrole |-> u.role, iat |-> t]

SignTemplate(nf, t) ==
    [key |-> JWT_TEMPLATE_SECRET, template |-> nf, algorithm |-> "SIFT",
     iat |-> t]

(***************************************************************************)
(* Queries of the persistence layer                                        *)
(***************************************************************************)
\* Variant: the two conditions joined with AND.
FindUsersBoth(email, nick) ==
    {u \in users : u.email = email /\ u.nick = nick}

\* prisma.user.findFirst({where: {OR: [{useremail}, {usernickname}]}}): the
\* rows the query may answer with (no ordering is requested); an absent
\* identifier adds no condition.
FindUsers(email, nick) ==
    {u \in users : \/ (email # None /\ u.email = email)
                   \/ (nick # None /\ u.nick = nick)}

\* Variant: only the email index exists.
UserUniqueViolationEmailOnly(email, nick) ==
    \E u \in users : u.email = email

\* User_useremail_key and User_usernickname_key
UserUniqueViolation(email, nick) ==
    \E u \in users : u.email = email \/ u.nick = nick

\* [1, 2, 3].includes(Number(userrole))
RoleValid(r) == r \in {1, 2, 3}

\* Variant: a count one below the minimum passes.
validateSIFTTemplateOffByOne(nf, minFeatures) == ~(nf + 1 < minFeatures)

\* validateSIFTTemplate(template, minFeatures)
validateSIFTTemplate(nf, minFeatures) == ~(nf < minFeatures)

(***************************************************************************)
(* Values standing for "absent"                                            *)
(***************************************************************************)
NoToken == [key |-> None, userpk |-> 0, iat |-> 0]
NoUser ==
    [id |-> 0, email |-> None, nick |-> None, role |-> 0, active |-> FALSE,
     tmpl |-> NoToken]

\* biometricInfo of an answer that carries none.
NoInfo == [similarity |-> 0, matches |-> 0, features |-> 0]

\* The answer the service gave to the request that completed last: the
\* outcome, the user, refresh token, access token and biometricInfo it
\* returns, and arg, the token the request presented.
Resp(op, res) ==
    [op |-> op, res |-> res, user |-> NoUser, tok |-> NoToken,
     access |-> NoToken, expiresAt |-> 0, arg |-> NoToken,
     biometricInfo |-> NoInfo]

(***************************************************************************)
(* The matchers of the histogram service and of the binary service.  A     *)
(* template is a tagged value: tag "histogram" for {histogram: [...]},     *)
(* "binary" for an array of bits, "SIFT" for a keypoint/descriptor record.  *)
(* Scores are counted in thousandths; the square root and the quotients     *)
(* are taken on integers, rounded down.                                     *)
(***************************************************************************)
MaxBinCount == 2
Bins == 256
One == 1000
BinCounts == 0..MaxBinCount

\* A histogram whose first and last bins hold x and y, the others 0.
Histogram(len, x, y) ==
    [i \in 1..len |-> IF i = 1 THEN x ELSE IF i = len THEN y ELSE 0]

\* generateFingerprintTemplate: 256 bins of pixel counts.
HistogramTemplates ==
    {[tag |-> "histogram", data |-> Histogram(Bins, x, y)] :
        x \in BinCounts, y \in BinCounts}

\* createBinaryTemplate: 256 bits.
BinaryTemplates ==
    {[tag |-> "binary", data |-> Histogram(Bins, x, y)] :
        x \in {0, 1}, y \in {0, 1}}

\* What a row may hold besides: a template of another service, a histogram
\* or an array of another length, an empty array.
ForeignTemplates ==
    {[tag |-> "SIFT", data |-> <<>>],
     [tag |-> "histogram", data |-> Histogram(Bins - 1, 0, 0)],
     [tag |-> "histogram", data |-> Histogram(Bins + 1, 0, 0)],
     [tag |-> "binary", data |-> Histogram(Bins - 1, 0, 0)],
     [tag |-> "binary", data |-> <<>>]}

RECURSIVE SquaresBetween(_, _, _, _)
\* The part of the sum over the bins lo..hi, by halves.
SquaresBetween(hist1, hist2, lo, hi) ==
    IF lo > hi THEN 0
    ELSE IF lo = hi
      THEN (hist1[lo] - hist2[lo]) * (hist1[lo] - hist2[lo])
    ELSE SquaresBetween(hist1, hist2, lo, (lo + hi) \div 2)
         + SquaresBetween(hist1, hist2, (lo + hi) \div 2 + 1, hi)

\* for (i = 0; i < hist1.length; i++) sumOfSquares += (hist1[i]-hist2[i])^2
SumOfSquares(hist1, hist2, length) == SquaresBetween(hist1, hist2, 1, length)

RECURSIVE SqrtBetween(_, _, _)
\* The largest r in lo..hi with r * r <= n.
SqrtBetween(n, lo, hi) ==
    IF lo = hi THEN lo
    ELSE LET mid == (lo + hi + 1) \div 2 IN
           IF mid * mid <= n THEN SqrtBetween(n, mid, hi)
           ELSE SqrtBetween(n, lo, mid - 1)

\* Math.sqrt of a number of millionths, in thousandths.
Sqrt(n) == SqrtBetween(n, 0, 46340)

\* templateA.histogram: undefined unless the template has the field.
HasHistogram(t) == t.tag = "histogram"

\* Variant: the distance is divided by the number of bins.
compareTemplatesPerBin(templateA, templateB) ==
    IF \/ ~HasHistogram(templateA) \/ ~HasHistogram(templateB)
       \/ Len(templateA.data) # 256 \/ Len(templateB.data) # 256
      THEN 0
    ELSE LET distance == Sqrt(SumOfSquares(templateA.data, templateB.data,
                                           Len(templateA.data)) * One * One)
                         \div Len(templateA.data)
         IN  (One * One) \div (One + distance)

\* Variant: the score is the distance over 1 + distance.
compareTemplatesByDistance(templateA, templateB) ==
    IF \/ ~HasHistogram(templateA) \/ ~HasHistogram(templateB)
       \/ Len(templateA.data) # 256 \/ Len(templateB.data) # 256
      THEN 0
    ELSE LET distance == Sqrt(SumOfSquares(templateA.data, templateB.data,
                                           Len(templateA.data)) * One * One)
         IN  (One * distance) \div (One + distance)

\* compareTemplates of the histogram service.
compareTemplates(templateA, templateB) ==
    IF \/ ~HasHistogram(templateA) \/ ~HasHistogram(templateB)
       \/ Len(templateA.data) # 256 \/ Len(templateB.data) # 256
      THEN 0
    ELSE LET distance == Sqrt(SumOfSquares(templateA.data, templateB.data,
                                           Len(templateA.data)) * One * One)
         IN  (One * One) \div (One + distance)

\* templateA.length: undefined (-1) unless the template is an array.
Length(t) == IF t.tag = "binary" THEN Len(t.data) ELSE -1

\* The value of 0 / undefined.
NaN == -1

RECURSIVE MatchesBetween(_, _, _, _)
\* The matches among the positions lo..hi, by halves.
MatchesBetween(templateA, templateB, lo, hi) ==
    IF lo > hi THEN 0
    ELSE IF lo = hi
      THEN (IF templateA[lo] = templateB[lo] THEN 1 ELSE 0)
    ELSE MatchesBetween(templateA, templateB, lo, (lo + hi) \div 2)
         + MatchesBetween(templateA, templateB, (lo + hi) \div 2 + 1, hi)

\* if (templateA[i] === templateB[i]) matches++
Matches(templateA, templateB, length) ==
    MatchesBetween(templateA, templateB, 1, length)

\* Variant: the proportion of the bits that differ.
compareBinaryTemplatesByDifference(templateA, templateB) ==
    IF Length(templateA) # Length(templateB) \/ Length(templateA) = 0
      THEN 0
    ELSE IF Length(templateA) = -1 THEN NaN
    ELSE (One * (Length(templateA)
                 - Matches(templateA.data, templateB.data, Length(templateA))))
         \div Length(templateA)

\* compareBinaryTemplates of the binary service.
compareBinaryTemplates(templateA, templateB) ==
    IF Length(templateA) # Length(templateB) \/ Length(templateA) = 0
      THEN 0
    ELSE IF Length(templateA) = -1 THEN NaN
    ELSE (One * Matches(templateA.data, templateB.data, Length(templateA)))
         \div Length(templateA)

\* The comparison of a login: the stored template a, the template b of the
\* login image, the score the matcher returned and what loginUser did with
\* it.
NoMatching ==
    [fn |-> None, a |-> [tag |-> None, data |-> <<>>],
     b |-> [tag |-> None, data |-> <<>>], out |-> [kind |-> None, value |-> 0],
     res |-> None]

\* A value the matcher returns to its caller.
Score(v) == [kind |-> "score", value |-> v]

\* if (similarity < SIMILARITY_THRESHOLD) throw new Error(...)
Decision(similarity, threshold) ==
    IF similarity < threshold THEN "NoMatchError" ELSE "accepted"

\* loginUser of the histogram service: compareTemplates and the decision,
\* SIMILARITY_THRESHOLD = 0.95.
HistogramCompare ==
    /\ match.fn = "compareTemplates"
    /\ match.res = None
    /\ match' = [match EXCEPT
                    !.out = Score(compareTemplates(match.a, match.b)),
                    !.res = Decision(compareTemplates(match.a, match.b), 950)]
    /\ UNCHANGED <<users, sessions, now, nextUserId, nextSessionId,
                   cproc, lproc, dproc, last, revoked, child>>

\* loginUser of the binary service: compareBinaryTemplates and the
\* decision, SIMILARITY_THRESHOLD = 0.85.
BinaryCompare ==
    /\ match.fn = "compareBinaryTemplates"
    /\ match.res = None
    /\ match' = [match EXCEPT
                    !.out = Score(compareBinaryTemplates(match.a, match.b)),
                    !.res = Decision(compareBinaryTemplates(match.a, match.b),
                                     850)]
    /\ UNCHANGED <<users, sessions, now, nextUserId, nextSessionId,
                   cproc, lproc, dproc, last, revoked, child>>

\* function createBinaryTemplate(histogram, threshold = 500)
BinaryThreshold == 500

\* Variant: a count equal to the threshold gives 1.
createBinaryTemplateInclusive(histogram, threshold) ==
    [i \in 1..Len(histogram) |-> IF histogram[i] >= threshold THEN 1 ELSE 0]

\* histogram.map(count => (count > threshold ? 1 : 0))
createBinaryTemplate(histogram, threshold) ==
    [i \in 1..Len(histogram) |-> IF histogram[i] > threshold THEN 1 ELSE 0]

\* The numbers of bins above the threshold in the images tried: none, one,
\* the two either side of 15 percent of the bins, all.
RunLengths == {0, 1, 38, 39, 256}

\* The histogram of an image whose first k grey levels hold hi pixels each
\* and the others lo pixels each.
ImageHistogram(k, hi, lo) == [i \in 1..Bins |-> IF i <= k THEN hi ELSE lo]

ImageHistograms ==
    {[tag |-> "image",
      data |-> ImageHistogram(k, BinaryThreshold + 1, lo)] :
        k \in RunLengths, lo \in {0, BinaryThreshold}}

\* payload.template of the envelopes createUser of the binary service has
\* signed for those images.
EnrolledBinaryTemplates ==
    {[tag |-> "binary", data |-> createBinaryTemplate(h.data, BinaryThreshold)] :
        h \in ImageHistograms}

\* loginUser of the binary service from the histogram of the login image:
\* createBinaryTemplate, compareBinaryTemplates and the decision.
BinaryLogin ==
    /\ match.fn = "createBinaryTemplate"
    /\ match.res = None
    /\ LET loginBinaryTemplate ==
               [tag |-> "binary",
                data |-> createBinaryTemplate(match.b.data, BinaryThreshold)]
           similarity == compareBinaryTemplates(match.a, loginBinaryTemplate)
       IN  match' = [match EXCEPT !.out = Score(similarity),
                                  !.res = Decision(similarity, 850)]
    /\ UNCHANGED <<users, sessions, now, nextUserId, nextSessionId,
                   cproc, lproc, dproc, last, revoked, child>>

(***************************************************************************)
(* extractSIFTFeatures and its child process.  The promise of a call, the  *)
(* text the child has written to its standard output so far, chunk by      *)
(* chunk, and what the listeners of the call have done.                    *)
(***************************************************************************)
MaxChunks == 3

\* The pieces the output of the child may arrive in: the two halves of a
\* JSON document whose success field is true or false, and text that is
\* not JSON.
Chunks == {"{success:true", "{success:false", "}", "Traceback"}

\* The exit codes of a child: success, failure, and null (here -1) for a
\* child ended by a signal.
ExitCodes == {0, 1, -1}

\* JSON.parse(outputData) and the success field of the result.
JsonParse(text) ==
    IF text = <<"{success:true", "}">> THEN "true"
    ELSE IF text = <<"{success:false", "}">> THEN "false"
    ELSE "SyntaxError"

NoChild ==
    [pc |-> "idle", outputData |-> <<>>, errorData |-> 0, code |-> 0,
     promise |-> "none", settled |-> 0, uncaught |-> FALSE]

\* new Promise(...) and spawn('python3', [scriptPath, 'extract']): the
\* child runs, or it could not be started and its 'error' event is due.
ExtractCall(started) ==
    /\ child.pc = "idle"
    /\ child' = [NoChild EXCEPT !.pc = IF started THEN "running"
                                                ELSE "spawnFailed",
                                !.promise = "pending"]
    /\ UNCHANGED <<users, sessions, now, nextUserId, nextSessionId,
                   cproc, lproc, dproc, last, revoked, match>>

\* pythonProcess.stdout.on('data', ...): outputData += data.toString()
StdoutData(chunk) ==
    /\ child.pc = "running"
    /\ Len(child.outputData) < MaxChunks
    /\ child' = [child EXCEPT !.outputData = Append(@, chunk)]
    /\ UNCHANGED <<users, sessions, now, nextUserId, nextSessionId,
                   cproc, lproc, dproc, last, revoked, match>>

\* pythonProcess.stderr.on('data', ...): errorData += data.toString()
StderrData ==
    /\ child.pc = "running"
    /\ child.errorData < 1
    /\ child' = [child EXCEPT !.errorData = @ + 1]
    /\ UNCHANGED <<users, sessions, now, nextUserId, nextSessionId,
                   cproc, lproc, dproc, last, revoked, match>>

\* The first call of resolve or reject settles the promise; each call is
\* counted.
Settle(c, how) ==
    [c EXCEPT !.promise = IF @ = "pending" THEN how ELSE @,
              !.settled = @ + 1]

\* pythonProcess.on('close', (code) => ...)
ChildClose(code) ==
    /\ child.pc = "running"
    /\ child' = [Settle(child,
                        IF code # 0 THEN "rejected"
                        ELSE IF JsonParse(child.outputData) = "true"
                          THEN "resolved"
                        ELSE "rejected")
                   EXCEPT !.pc = "closed", !.code = code]
    /\ UNCHANGED <<users, sessions, now, nextUserId, nextSessionId,
                   cproc, lproc, dproc, last, revoked, match>>

\* The 'error' event of a child that could not be started.  The call
\* registers listeners for 'data' and 'close' only, so the emitter throws
\* the error in the event loop, outside the executor of the promise, and
\* no 'close' event follows.
ChildError ==
    /\ child.pc = "spawnFailed"
    /\ child' = [child EXCEPT !.pc = "errored", !.uncaught = TRUE]
    /\ UNCHANGED <<users, sessions, now, nextUserId, nextSessionId,
                   cproc, lproc, dproc, last, revoked, match>>

\* The caller has its answer; the next call starts from here.
ExtractReturn ==
    /\ child.pc = "closed"
    /\ child' = NoChild
    /\ UNCHANGED <<users, sessions, now, nextUserId, nextSessionId,
                   cproc, lproc, dproc, last, revoked, match>>

(***************************************************************************)
(* Initial state: empty store, no request in flight                        *)
(***************************************************************************)
IdleCreate ==
    [pc |-> "idle", email |-> None, nick |-> None, role |-> 0,
     tmpl |-> NoToken]

IdleLogin ==
    [pc |-> "idle", user |-> NoUser, nf |-> 0, similarity |-> 0,
     good_matches |-> 0, accessToken |-> NoToken, refreshToken |-> NoToken,
     expiresAt |-> 0]

IdleDelete == [pc |-> "idle", id |-> 0]

Init ==
    /\ users = {}
    /\ sessions = {}
    /\ now = 0
    /\ nextUserId = 1
    /\ nextSessionId = 1
    /\ cproc = [p \in CreateProcs |-> IdleCreate]
    /\ lproc = [p \in LoginProcs |-> IdleLogin]
    /\ dproc = IdleDelete
    /\ last = Resp(None, None)
    /\ revoked = {}
    /\ match = NoMatching
    /\ child = NoChild

\* The store after two enrollments at time 0 (a state SpecEnroll reaches).
EnrolledUsers ==
    {[id |-> 1, email |-> "e1", nick |-> "n1", role |-> 1, active |-> TRUE,
      tmpl |-> SignTemplate(MinEnrollmentFeatures, 0)],
     [id |-> 2, email |-> "e2", nick |-> "n2", role |-> 2, active |-> TRUE,
      tmpl |-> SignTemplate(MinEnrollmentFeatures, 0)]}

InitEnrolled ==
    /\ users = EnrolledUsers
    /\ sessions = {}
    /\ now = 0
    /\ nextUserId = 3
    /\ nextSessionId = 1
    /\ cproc = [p \in CreateProcs |-> IdleCreate]
    /\ lproc = [p \in LoginProcs |-> IdleLogin]
    /\ dproc = IdleDelete
    /\ last = Resp(None, None)
    /\ revoked = {}
    /\ match = NoMatching
    /\ child = NoChild

\* The answer of a completed request is sent before the next step is taken.
Ready == last.op = None

Respond ==
    /\ ~Ready
    /\ last' = Resp(None, None)
    /\ UNCHANGED <<users, sessions, now, nextUserId, nextSessionId,
                   cproc, lproc, dproc, revoked, match, child>>

InFlight ==
    Cardinality({p \in DOMAIN cproc : cproc[p].pc # "idle"})
    + Cardinality({p \in DOMAIN lproc : lproc[p].pc # "idle"})
    + (IF dproc.pc # "idle" THEN 1 ELSE 0)

(***************************************************************************)
(* createUser                                                              *)
(***************************************************************************)
CreateEnd(p, res) ==
    /\ cproc' = [cproc EXCEPT ![p] = IdleCreate]
    /\ last' = Resp("createUser", res)

\* The call up to the answer of the pre-check query and the role check.
CreateCall(p, email, nick, role, image) ==
    /\ Ready
    /\ cproc[p].pc = "idle"
    /\ InFlight < MaxInFlight
    /\ IF image = NoImage
         THEN CreateEnd(p, "ImageRequired")
       ELSE IF FindUsers(email, nick) # {}
         THEN CreateEnd(p, "DuplicateError")
       ELSE IF ~RoleValid(role)
         THEN CreateEnd(p, "ValidationError")
       ELSE /\ cproc' = [cproc EXCEPT ![p] =
                   [IdleCreate EXCEPT !.pc = "extract", !.email = email,
                                      !.nick = nick, !.role = role]]
            /\ UNCHANGED last
    /\ UNCHANGED <<users, sessions, now, nextUserId, nextSessionId,
                   lproc, dproc, revoked, match, child>>

\* extractSIFTFeatures settles, then the enrollment gate and the envelope.
CreateExtract(p, ok, nf) ==
    /\ Ready
    /\ cproc[p].pc = "extract"
    /\ IF ~ok
         THEN CreateEnd(p, "ExtractionError")
       ELSE IF ~validateSIFTTemplate(nf, MinEnrollmentFeatures)
         THEN CreateEnd(p, "InsufficientQualityError")
       ELSE /\ cproc' = [cproc EXCEPT ![p].pc = "insert",
                                      ![p].tmpl = SignTemplate(nf, now)]
            /\ UNCHANGED last
    /\ UNCHANGED <<users, sessions, now, nextUserId, nextSessionId,
                   lproc, dproc, revoked, match, child>>

\* Variant: the row is created inactive.
NewUserInactive(id, c) ==
    [id |-> id, email |-> c.email, nick |-> c.nick, role |-> c.role,
     active |-> FALSE, tmpl |-> c.tmpl]

\* The data of prisma.user.create: the profile fields of the call, the
\* envelope and userisativo: true.
NewUser(id, c) ==
    [id |-> id, email |-> c.email, nick |-> c.nick, role |-> c.role,
     active |-> TRUE, tmpl |-> c.tmpl]

\* const { ...userWithoutSensitiveData } = user: the rest pattern names no
\* field to leave out, so the copy has every field of the row.
userWithoutSensitiveData(user) == user

\* prisma.user.create under the two unique indexes.
CreateInsert(p) ==
    /\ Ready
    /\ cproc[p].pc = "insert"
    /\ IF UserUniqueViolation(cproc[p].email, cproc[p].nick)
         THEN /\ CreateEnd(p, "UniqueConstraintFailed")
              /\ UNCHANGED <<users, nextUserId>>
         ELSE /\ nextUserId <= MaxUserId
              /\ users' = users \cup {NewUser(nextUserId, cproc[p])}
              /\ nextUserId' = nextUserId + 1
              /\ cproc' = [cproc EXCEPT ![p] = IdleCreate]
              /\ last' = [Resp("createUser", "ok") EXCEPT
                             !.user = userWithoutSensitiveData(
                                          NewUser(nextUserId, cproc[p]))]
    /\ UNCHANGED <<sessions, now, nextSessionId, lproc, dproc, revoked, match, child>>

(***************************************************************************)
(* loginUser                                                               *)
(***************************************************************************)
LoginEnd(p, res) ==
    /\ lproc' = [lproc EXCEPT ![p] = IdleLogin]
    /\ last' = Resp("loginUser", res)

\* Variant: the algorithm claim is not read.
DecodeOkSignatureOnly(envelope, t) ==
    JwtVerify(envelope, JWT_TEMPLATE_SECRET, TemplateLifetime, t)

\* Jwt.verify of the stored envelope and the algorithm check.
DecodeOk(envelope, t) ==
    /\ JwtVerify(envelope, JWT_TEMPLATE_SECRET, TemplateLifetime, t)
    /\ envelope.algorithm = "SIFT"

\* Variant: the envelope is decoded before the active flag is read.
LookupOutcomeDecodeFirst(user, t) ==
    IF ~DecodeOk(user.tmpl, t) THEN "CorruptTemplateError"
    ELSE IF ~user.active THEN "InactiveError"
    ELSE "ok"

\* The active check, then the decoding of the stored envelope.
LookupOutcome(user, t) ==
    IF ~user.active THEN "InactiveError"
    ELSE IF ~DecodeOk(user.tmpl, t) THEN "CorruptTemplateError"
    ELSE "ok"

\* The call up to the answer of the lookup, the active check and the
\* decoding of the stored envelope.
LoginCall(p, email, nick, image) ==
    /\ Ready
    /\ lproc[p].pc = "idle"
    /\ InFlight < MaxInFlight
    /\ IF image = NoImage
         THEN LoginEnd(p, "ImageRequired")
       ELSE IF email = None /\ nick = None
         THEN LoginEnd(p, "IdentifierRequired")
       ELSE IF FindUsers(email, nick) = {}
         THEN LoginEnd(p, "NotFoundError")
       ELSE \E user \in FindUsers(email, nick) :
              IF LookupOutcome(user, now) # "ok"
                THEN LoginEnd(p, LookupOutcome(user, now))
              ELSE /\ lproc' = [lproc EXCEPT ![p] =
                          [IdleLogin EXCEPT !.pc = "extract", !.user = user]]
                   /\ UNCHANGED last
    /\ UNCHANGED <<users, sessions, now, nextUserId, nextSessionId,
                   cproc, dproc, revoked, match, child>>

\* extractSIFTFeatures settles, then the login quality gate.
LoginExtract(p, ok, nf) ==
    /\ Ready
    /\ lproc[p].pc = "extract"
    /\ IF ~ok
         THEN LoginEnd(p, "ExtractionError")
       ELSE IF ~validateSIFTTemplate(nf, MinLoginFeatures)
         THEN LoginEnd(p, "InsufficientQualityError")
       ELSE /\ lproc' = [lproc EXCEPT ![p].pc = "compare", ![p].nf = nf]
            /\ UNCHANGED last
    /\ UNCHANGED <<users, sessions, now, nextUserId, nextSessionId,
                   cproc, dproc, revoked, match, child>>

\* Variant: the threshold value itself is rejected.
AcceptedAboveThreshold(similarity, good_matches) ==
    ~(similarity <= SIMILARITY_THRESHOLD \/ good_matches < MIN_MATCHES)

\* comparison.similarity < SIMILARITY_THRESHOLD ||
\* comparison.good_matches < MIN_MATCHES  rejects
Accepted(similarity, good_matches) ==
    ~(similarity < SIMILARITY_THRESHOLD \/ good_matches < MIN_MATCHES)

\* Variant: the days are added as seconds.
AddDaysAsSeconds(t, days) == t + days

\* expiresAt.setDate(expiresAt.getDate() + 10)
AddDays(t, days) == t + days * Day

\* Variant: the error of a rejected login tells the score.
NoMatchAnswerWithScore(similarity, good_matches) ==
    [Resp("loginUser", "NoMatchError") EXCEPT
        !.biometricInfo = [NoInfo EXCEPT !.similarity = similarity,
                                         !.matches = good_matches]]

\* throw new Error('Digital nao corresponde.'): the score goes to the log
\* only.
NoMatchAnswer(similarity, good_matches) == Resp("loginUser", "NoMatchError")

\* compareSIFTTemplates settles, then the decision and the two tokens.
LoginCompare(p, ok, similarity, good_matches) ==
    /\ Ready
    /\ lproc[p].pc = "compare"
    /\ IF ~ok
         THEN LoginEnd(p, "ComparisonError")
       ELSE IF ~Accepted(similarity, good_matches)
         THEN /\ lproc' = [lproc EXCEPT ![p] = IdleLogin]
              /\ last' = NoMatchAnswer(similarity, good_matches)
       ELSE /\ lproc' = [lproc EXCEPT ![p] =
                  [@ EXCEPT !.pc = "insert",
                            !.similarity = similarity,
                            !.good_matches = good_matches,
                            !.accessToken = SignAccess(lproc[p].user, now),
                            !.refreshToken = SignRefresh(lproc[p].user, now),
                            !.expiresAt = AddDays(now, 10)]]
            /\ UNCHANGED last
    /\ UNCHANGED <<users, sessions, now, nextUserId, nextSessionId,
                   cproc, dproc, revoked, match, child>>

\* Variant: the unique index on refreshtoken is missing.
SessionUniqueUnchecked(token) == FALSE

\* UserSession_refreshtoken_key
SessionUniqueViolation(token) ==
    \E s \in sessions : s.refreshtoken = token

\* Variant: the foreign key is not enforced on insert.
SessionForeignKeyUnchecked(userId) == FALSE

\* UserSession_userId_fkey
SessionForeignKeyViolation(userId) ==
    \A u \in users : u.id # userId

\* prisma.userSession.create, then the answer.
LoginInsert(p) ==
    /\ Ready
    /\ lproc[p].pc = "insert"
    /\ IF SessionForeignKeyViolation(lproc[p].user.id)
         THEN /\ LoginEnd(p, "ForeignKeyFailed")
              /\ UNCHANGED <<sessions, nextSessionId>>
       ELSE IF SessionUniqueViolation(lproc[p].refreshToken)
         THEN /\ LoginEnd(p, "UniqueConstraintFailed")
              /\ UNCHANGED <<sessions, nextSessionId>>
       ELSE /\ nextSessionId <= MaxSessionId
            /\ sessions' = sessions \cup
                  {[id |-> nextSessionId, userId |-> lproc[p].user.id,
                    refreshtoken |-> lproc[p].refreshToken,
                    expiresAt |-> lproc[p].expiresAt]}
            /\ nextSessionId' = nextSessionId + 1
            /\ lproc' = [lproc EXCEPT ![p] = IdleLogin]
            /\ last' = [Resp("loginUser", "ok") EXCEPT
                           !.user = userWithoutSensitiveData(lproc[p].user),
                           !.tok = lproc[p].refreshToken,
                           !.access = lproc[p].accessToken,
                           !.expiresAt = lproc[p].expiresAt,
                           !.biometricInfo =
                               [similarity |-> lproc[p].similarity,
                                matches |-> lproc[p].good_matches,
                                features |-> lproc[p].nf]]
    /\ UNCHANGED <<users, now, nextUserId, cproc, dproc, revoked, match, child>>

(***************************************************************************)
(* refreshToken, logout, logoutAll                                         *)
(***************************************************************************)
\* Variant: the session is looked up by the user id of the payload.
FindSessionByUser(token) == {s \in sessions : s.userId = token.userpk}

\* prisma.userSession.findUnique({where: {refreshtoken}, include: {user}})
FindSession(token) == {s \in sessions : s.refreshtoken = token}

SessionUser(s) == CHOOSE u \in users : u.id = s.userId

\* The access token refreshToken signs: no userrole claim.
SignAccessOnRefresh(u, t) ==
    [key |-> JWT_SECRET_ACCESS, userpk |-> u.id, usernickname |-> u.nick,
     iat |-> t]

\* Variant: the answer carries a newly signed refresh token.
RefreshAnswerRotating(u, t) ==
    [Resp("refreshToken", "ok") EXCEPT
        !.access = SignAccessOnRefresh(u, t), !.tok = SignRefresh(u, t)]

\* return {user: session.user.usernickname, accessToken: newAccessToken}
RefreshAnswer(u, t) ==
    [Resp("refreshToken", "ok") EXCEPT !.access = SignAccessOnRefresh(u, t)]

\* Every error raised inside the try block, the missing session included,
\* leaves the handler as the error of the catch block.
RefreshToken(token) ==
    /\ Ready
    /\ IF token = NoToken
         THEN last' = Resp("refreshToken", "TokenRequired")
       ELSE IF ~JwtVerify(token, JWT_REFRESH_SECRET, RefreshLifetime, now)
         THEN last' = [Resp("refreshToken", "InvalidTokenError") EXCEPT
                          !.arg = token]
       ELSE IF FindSession(token) = {}
         THEN last' = [Resp("refreshToken", "InvalidTokenError") EXCEPT
                          !.arg = token]
       ELSE \E s \in FindSession(token) :
              last' = [RefreshAnswer(SessionUser(s), now) EXCEPT !.arg = token]
    /\ UNCHANGED <<users, sessions, now, nextUserId, nextSessionId,
                   cproc, lproc, dproc, revoked, match, child>>

\* History of the deleted sessions: the token of each row a step removes
\* and the operation that removed it.
Record(by) ==
    revoked' = revoked \cup
        {[tok |-> s.refreshtoken, by |-> by] : s \in sessions \ sessions'}

\* Variant: the token is verified first and a session must hold it.
LogoutVerified(token) ==
    /\ Ready
    /\ IF token = NoToken
         THEN /\ last' = Resp("logout", "TokenRequired")
              /\ UNCHANGED sessions
       ELSE IF \/ ~JwtVerify(token, JWT_REFRESH_SECRET, RefreshLifetime, now)
               \/ FindSession(token) = {}
         THEN /\ last' = Resp("logout", "InvalidTokenError")
              /\ UNCHANGED sessions
         ELSE /\ sessions' = sessions \ FindSession(token)
              /\ last' = Resp("logout", "ok")
    /\ UNCHANGED <<users, now, nextUserId, nextSessionId, cproc, lproc, dproc,
                   match, child>>

\* prisma.userSession.deleteMany({where: {refreshtoken}})
Logout(token) ==
    /\ Ready
    /\ IF token = NoToken
         THEN /\ last' = Resp("logout", "TokenRequired")
              /\ UNCHANGED sessions
         ELSE /\ sessions' = sessions \ FindSession(token)
              /\ last' = Resp("logout", "ok")
    /\ UNCHANGED <<users, now, nextUserId, nextSessionId, cproc, lproc, dproc,
                   match, child>>

\* Variant: the sweep has no where clause.
SessionsOfAnyone(userId) == sessions

SessionsOf(userId) == {s \in sessions : s.userId = userId}

\* Variant: a sweep that deletes no row is reported as an error.
LogoutAllCounted(userId) ==
    /\ Ready
    /\ sessions' = sessions \ SessionsOf(userId)
    /\ last' = [Resp("logoutAll",
                     IF SessionsOf(userId) = {} THEN "NoSession" ELSE "ok")
                   EXCEPT !.user = [NoUser EXCEPT !.id = userId]]
    /\ UNCHANGED <<users, now, nextUserId, nextSessionId, cproc, lproc, dproc,
                   match, child>>

\* prisma.userSession.deleteMany({where: {userId}})
LogoutAll(userId) ==
    /\ Ready
    /\ sessions' = sessions \ SessionsOf(userId)
    /\ last' = [Resp("logoutAll", "ok") EXCEPT
                   !.user = [NoUser EXCEPT !.id = userId]]
    /\ UNCHANGED <<users, now, nextUserId, nextSessionId, cproc, lproc, dproc,
                   match, child>>

(***************************************************************************)
(* updateUser                                                              *)
(***************************************************************************)
\* A field the request body does not name.
NoRole == -1
NoFlag == "none"

\* An envelope a request body may carry.
ForgedTemplate ==
    [key |-> ForgedKey, template |-> MinEnrollmentFeatures,
     algorithm |-> "SIFT", iat |-> 0]

\* req.body of PATCH /users/me: the fields it names and their values; name
\* tells whether it names username or userlastname.
RoleUpdates == {NoRole, 0, 3, 4}
FlagUpdates == {NoFlag, "true", "false"}
UpdateBodies ==
    [email : {None, "e2"}, nick : {None, "n2"},
     tmpl : {NoToken, ForgedTemplate}, role : RoleUpdates,
     active : FlagUpdates, name : BOOLEAN]

\* Variant: fingerprintTemplate is not among the fields taken out.
StripProtectedKeepTemplate(data) ==
    [data EXCEPT !.email = None, !.nick = None]

\* Variant: useremail is not among the fields taken out.
StripProtectedKeepEmail(data) ==
    [data EXCEPT !.nick = None, !.tmpl = NoToken]

\* const {userpk, usernickname, useremail, fingerprintTemplate, createdAt,
\*        updatedAt, ...updatedData} = data
StripProtected(data) ==
    [data EXCEPT !.email = None, !.nick = None, !.tmpl = NoToken]

\* Object.keys(updatedData).length === 0
KeysEmpty(d) ==
    /\ d.email = None
    /\ d.nick = None
    /\ d.tmpl = NoToken
    /\ d.role = NoRole
    /\ d.active = NoFlag
    /\ ~d.name

\* The row after prisma.user.update({where: {id}, data: updatedData}):
\* every field the data names is written, userrole as Number(userrole).
ApplyUpdate(u, d) ==
    [u EXCEPT !.email = IF d.email # None THEN d.email ELSE @,
              !.nick = IF d.nick # None THEN d.nick ELSE @,
              !.tmpl = IF d.tmpl # NoToken THEN d.tmpl ELSE @,
              !.role = IF d.role # NoRole THEN d.role ELSE @,
              !.active = IF d.active # NoFlag THEN d.active = "true" ELSE @]

\* User_useremail_key and User_usernickname_key on update
UpdateUniqueViolation(userId, d) ==
    \E u \in users :
        /\ u.id # userId
        /\ \/ (d.email # None /\ u.email = d.email)
           \/ (d.nick # None /\ u.nick = d.nick)

UpdateUser(userId, data) ==
    /\ Ready
    /\ LET d == StripProtected(data) IN
         IF userId = 0
           THEN /\ last' = Resp("updateUser", "IdRequired")
                /\ UNCHANGED users
         ELSE IF KeysEmpty(d)
           THEN /\ last' = Resp("updateUser", "NothingToUpdate")
                /\ UNCHANGED users
         ELSE IF \A u \in users : u.id # userId
           THEN /\ last' = Resp("updateUser", "RecordNotFound")
                /\ UNCHANGED users
         ELSE IF UpdateUniqueViolation(userId, d)
           THEN /\ last' = Resp("updateUser", "UniqueConstraintFailed")
                /\ UNCHANGED users
         ELSE /\ users' = {IF u.id = userId THEN ApplyUpdate(u, d) ELSE u
                             : u \in users}
              /\ last' = [Resp("updateUser", "ok") EXCEPT !.user =
                    ApplyUpdate(CHOOSE u \in users : u.id = userId, d)]
    /\ UNCHANGED <<sessions, now, nextUserId, nextSessionId, cproc, lproc,
                   dproc, revoked, match, child>>

(***************************************************************************)
(* inativarUser, deleteUser                                                *)
(***************************************************************************)
\* Variant: the deactivation also deletes the sessions of the user.
InativarUserRevoking(id) ==
    /\ Ready
    /\ IF \E u \in users : u.id = id
         THEN /\ users' = {IF u.id = id THEN [u EXCEPT !.active = FALSE] ELSE u
                             : u \in users}
              /\ sessions' = {s \in sessions : s.userId # id}
              /\ last' = [Resp("inativarUser", "ok") EXCEPT
                             !.user = [NoUser EXCEPT !.id = id]]
         ELSE /\ last' = Resp("inativarUser", "RecordNotFound")
              /\ UNCHANGED <<users, sessions>>
    /\ UNCHANGED <<now, nextUserId, nextSessionId, cproc, lproc,
                   dproc, revoked, match, child>>

\* prisma.user.update({where: {id}, data: {userisativo: false}})
InativarUser(id) ==
    /\ Ready
    /\ IF \E u \in users : u.id = id
         THEN /\ users' = {IF u.id = id THEN [u EXCEPT !.active = FALSE] ELSE u
                             : u \in users}
              /\ last' = [Resp("inativarUser", "ok") EXCEPT
                             !.user = [NoUser EXCEPT !.id = id]]
         ELSE /\ last' = Resp("inativarUser", "RecordNotFound")
              /\ UNCHANGED users
    /\ UNCHANGED <<sessions, now, nextUserId, nextSessionId, cproc, lproc,
                   dproc, revoked, match, child>>

\* First statement of deleteUser: the sessions of the user.
DeleteUserSessions(id) ==
    /\ Ready
    /\ dproc.pc = "idle"
    /\ InFlight < MaxInFlight
    /\ sessions' = sessions \ SessionsOf(id)
    /\ dproc' = [pc |-> "user", id |-> id]
    /\ UNCHANGED <<users, now, nextUserId, nextSessionId, cproc, lproc, last,
                   match, child>>

\* Second statement: the user row; the foreign key cascades to the
\* sessions created in between.
DeleteUserRow ==
    /\ Ready
    /\ dproc.pc = "user"
    /\ dproc' = IdleDelete
    /\ IF \E u \in users : u.id = dproc.id
         THEN /\ users' = {u \in users : u.id # dproc.id}
              /\ sessions' = sessions \ SessionsOf(dproc.id)
              /\ last' = [Resp("deleteUser", "ok") EXCEPT
                             !.user = [NoUser EXCEPT !.id = dproc.id]]
         ELSE /\ last' = Resp("deleteUser", "RecordNotFound")
              /\ UNCHANGED <<users, sessions>>
    /\ UNCHANGED <<now, nextUserId, nextSessionId, cproc, lproc, match, child>>

(***************************************************************************)
(* The clock                                                               *)
(***************************************************************************)
Tick ==
    /\ Ready
    /\ \E t \in Instants : t > now /\ now' = t
    /\ UNCHANGED <<users, sessions, nextUserId, nextSessionId,
                   cproc, lproc, dproc, last, revoked, match, child>>

\* The tokens a client may present: every token the refresh secret may
\* have signed up to now, issued or not, a token signed with another key,
\* and the empty one.
TokenInputs ==
    {[key |-> JWT_REFRESH_SECRET, userpk |-> id, iat |-> t] :
        id \in UserIds, t \in {i \in Instants : i <= now}}
    \cup {[key |-> ForgedKey, userpk |-> 1, iat |-> now], NoToken}

(***************************************************************************)
(* authenticaAccessToken                                                   *)
(***************************************************************************)
\* Variant: the middleware also asks for an active user with a session.
AuthenticaAccessTokenStateful(token) ==
    /\ Ready
    /\ IF token = NoToken
         THEN last' = Resp("authenticaAccessToken", "TokenRequired")
       ELSE IF \/ ~JwtVerify(token, JWT_SECRET_ACCESS, AccessLifetime, now)
               \/ ~\E u \in users : u.id = token.userpk /\ u.active
               \/ ~\E s \in sessions : s.userId = token.userpk
         THEN last' = [Resp("authenticaAccessToken", "InvalidToken") EXCEPT
                          !.arg = token]
       ELSE last' = [Resp("authenticaAccessToken", "ok") EXCEPT !.arg = token]
    /\ UNCHANGED <<users, sessions, now, nextUserId, nextSessionId,
                   cproc, lproc, dproc, revoked, match, child>>

\* The middleware in front of the guarded routes: "ok" is the call of
\* next() with the payload in req.user.
AuthenticaAccessToken(token) ==
    /\ Ready
    /\ IF token = NoToken
         THEN last' = Resp("authenticaAccessToken", "TokenRequired")
       ELSE IF ~JwtVerify(token, JWT_SECRET_ACCESS, AccessLifetime, now)
         THEN last' = [Resp("authenticaAccessToken", "InvalidToken") EXCEPT
                          !.arg = token]
       ELSE last' = [Resp("authenticaAccessToken", "ok") EXCEPT !.arg = token]
    /\ UNCHANGED <<users, sessions, now, nextUserId, nextSessionId,
                   cproc, lproc, dproc, revoked, match, child>>

\* The access tokens the service may have signed up to now for the enrolled
\* users, at login and at refresh, and the stored envelopes.
AccessTokenInputs ==
    {SignAccess(u, t) : u \in EnrolledUsers, t \in {i \in Instants : i <= now}}
    \cup {SignAccessOnRefresh(u, t) :
              u \in EnrolledUsers, t \in {i \in Instants : i <= now}}

EnvelopeInputs == {u.tmpl : u \in EnrolledUsers}

\* Every token a client may put in a request, of whatever kind.
AnyTokens == TokenInputs \cup AccessTokenInputs \cup EnvelopeInputs

\* Enrollment and removal of users, from the empty store.
NextEnroll ==
    \/ \E p \in CreateProcs, e \in Emails, n \in Nicks, r \in RoleInputs,
          i \in Images \cup {NoImage} : CreateCall(p, e, n, r, i)
    \/ \E p \in CreateProcs, ok \in BOOLEAN, nf \in EnrollFeatureCounts :
          CreateExtract(p, ok, nf)
    \/ \E p \in CreateProcs : CreateInsert(p)
    \/ \E id \in UserIds : DeleteUserSessions(id) /\ UNCHANGED revoked
    \/ DeleteUserRow /\ UNCHANGED revoked
    \/ Tick
    \/ Respond

SpecEnroll == Init /\ [][NextEnroll]_vars

\* The session lifecycle of the enrolled users.
Next ==
    \/ \E p \in LoginProcs, e \in Emails \cup {None}, n \in Nicks \cup {None},
          i \in Images \cup {NoImage} : LoginCall(p, e, n, i)
    \/ \E p \in LoginProcs, ok \in BOOLEAN, nf \in LoginFeatureCounts :
          LoginExtract(p, ok, nf)
    \/ \E p \in LoginProcs, ok \in BOOLEAN, sim \in Similarities,
          m \in GoodMatches : LoginCompare(p, ok, sim, m)
    \/ \E p \in LoginProcs : LoginInsert(p)
    \/ \E t \in TokenInputs : RefreshToken(t)
    \/ \E t \in TokenInputs : Logout(t) /\ UNCHANGED revoked
    \/ \E id \in UserIds : LogoutAll(id) /\ UNCHANGED revoked
    \/ \E id \in UserIds : InativarUser(id)
    \/ \E id \in UserIds : DeleteUserSessions(id) /\ UNCHANGED revoked
    \/ DeleteUserRow /\ UNCHANGED revoked
    \/ Tick
    \/ Respond

Spec == InitEnrolled /\ [][Next]_vars

\* The session lifecycle with the history of the deleted sessions.
NextHistory ==
    \/ \E p \in LoginProcs, e \in Emails \cup {None}, n \in Nicks \cup {None},
          i \in Images \cup {NoImage} : LoginCall(p, e, n, i)
    \/ \E p \in LoginProcs, ok \in BOOLEAN, nf \in LoginFeatureCounts :
          LoginExtract(p, ok, nf)
    \/ \E p \in LoginProcs, ok \in BOOLEAN, sim \in Similarities,
          m \in GoodMatches : LoginCompare(p, ok, sim, m)
    \/ \E p \in LoginProcs : LoginInsert(p)
    \/ \E t \in TokenInputs : RefreshToken(t)
    \/ \E t \in TokenInputs : Logout(t) /\ Record("logout")
    \/ \E id \in UserIds : LogoutAll(id) /\ Record("logoutAll")
    \/ \E id \in UserIds : DeleteUserSessions(id) /\ Record("deleteUser")
    \/ DeleteUserRow /\ Record("deleteUser")
    \/ Tick
    \/ Respond

SpecHistory == InitEnrolled /\ [][NextHistory]_vars

\* Logins and sweeps side by side, with the history of the swept sessions.
NextRace ==
    \/ \E p \in LoginProcs, e \in Emails \cup {None}, n \in Nicks \cup {None},
          i \in Images \cup {NoImage} : LoginCall(p, e, n, i)
    \/ \E p \in LoginProcs, ok \in BOOLEAN, nf \in LoginFeatureCounts :
          LoginExtract(p, ok, nf)
    \/ \E p \in LoginProcs, ok \in BOOLEAN, sim \in Similarities,
          m \in GoodMatches : LoginCompare(p, ok, sim, m)
    \/ \E p \in LoginProcs : LoginInsert(p)
    \/ \E id \in UserIds : LogoutAll(id) /\ Record("logoutAll")
    \/ Tick
    \/ Respond

SpecRace == InitEnrolled /\ [][NextRace]_vars

\* Logins and the two verifications, given tokens of every kind.
NextTokens ==
    \/ \E p \in LoginProcs, e \in Emails \cup {None}, n \in Nicks \cup {None},
          i \in Images \cup {NoImage} : LoginCall(p, e, n, i)
    \/ \E p \in LoginProcs, ok \in BOOLEAN, nf \in LoginFeatureCounts :
          LoginExtract(p, ok, nf)
    \/ \E p \in LoginProcs, ok \in BOOLEAN, sim \in Similarities,
          m \in GoodMatches : LoginCompare(p, ok, sim, m)
    \/ \E p \in LoginProcs : LoginInsert(p)
    \/ \E t \in AnyTokens : RefreshToken(t)
    \/ \E t \in AnyTokens : AuthenticaAccessToken(t)
    \/ Tick
    \/ Respond

SpecTokens == InitEnrolled /\ [][NextTokens]_vars

\* The instants around the expiry of an access token signed at time 0.
GuardInstants == {0, AccessLifetime - 1, AccessLifetime, AccessLifetime + 1}

TickGuard ==
    /\ Ready
    /\ \E t \in GuardInstants : t > now /\ now' = t
    /\ UNCHANGED <<users, sessions, nextUserId, nextSessionId,
                   cproc, lproc, dproc, last, revoked, match, child>>

\* The Authorization headers a client may send: the access tokens the
\* service may have signed up to now, at login and at refresh, one signed
\* with another key, and none.
GuardTokens ==
    {SignAccess(u, t) : u \in users, t \in {i \in GuardInstants : i <= now}}
    \cup {SignAccessOnRefresh(u, t) :
              u \in users, t \in {i \in GuardInstants : i <= now}}
    \cup {[SignAccess(u, now) EXCEPT !.key = ForgedKey] : u \in users}
    \cup {NoToken}

\* Logins and the guarded routes around the expiry of the access token.
NextGuard ==
    \/ \E p \in LoginProcs, e \in Emails \cup {None}, n \in Nicks \cup {None},
          i \in Images \cup {NoImage} : LoginCall(p, e, n, i)
    \/ \E p \in LoginProcs, ok \in BOOLEAN, nf \in LoginFeatureCounts :
          LoginExtract(p, ok, nf)
    \/ \E p \in LoginProcs, ok \in BOOLEAN, sim \in Similarities,
          m \in GoodMatches : LoginCompare(p, ok, sim, m)
    \/ \E p \in LoginProcs : LoginInsert(p)
    \/ \E t \in GuardTokens : AuthenticaAccessToken(t)
    \/ TickGuard
    \/ Respond

SpecGuard == InitEnrolled /\ [][NextGuard]_vars

\* The Authorization headers a client may hold: the access tokens the
\* service may have signed up to now for the users enrolled at the start,
\* whatever became of them, one signed with another key, and none.
HeldAccessTokens ==
    {SignAccess(u, t) :
        u \in EnrolledUsers, t \in {i \in GuardInstants : i <= now}}
    \cup {SignAccessOnRefresh(u, t) :
              u \in EnrolledUsers, t \in {i \in GuardInstants : i <= now}}
    \cup {[SignAccess(u, now) EXCEPT !.key = ForgedKey] : u \in EnrolledUsers}
    \cup {NoToken}

\* The guarded routes beside the operations that end sessions and users.
NextAccess ==
    \/ \E p \in LoginProcs, e \in Emails \cup {None}, n \in Nicks \cup {None},
          i \in Images \cup {NoImage} : LoginCall(p, e, n, i)
    \/ \E p \in LoginProcs, ok \in BOOLEAN, nf \in LoginFeatureCounts :
          LoginExtract(p, ok, nf)
    \/ \E p \in LoginProcs, ok \in BOOLEAN, sim \in Similarities,
          m \in GoodMatches : LoginCompare(p, ok, sim, m)
    \/ \E p \in LoginProcs : LoginInsert(p)
    \/ \E t \in HeldAccessTokens : AuthenticaAccessToken(t)
    \/ \E t \in TokenInputs : Logout(t) /\ UNCHANGED revoked
    \/ \E id \in UserIds : LogoutAll(id) /\ UNCHANGED revoked
    \/ \E id \in UserIds : InativarUser(id)
    \/ \E id \in UserIds : DeleteUserSessions(id) /\ UNCHANGED revoked
    \/ DeleteUserRow /\ UNCHANGED revoked
    \/ TickGuard
    \/ Respond

SpecAccess == InitEnrolled /\ [][NextAccess]_vars

\* The envelopes a row enrolled at time 0 may hold: the one createUser
\* signs, one signed under another template secret, and one whose payload
\* carries no algorithm claim (a row enrolled by the binary variant).
StoredEnvelopes ==
    {SignTemplate(MinEnrollmentFeatures, 0),
     [SignTemplate(MinEnrollmentFeatures, 0) EXCEPT !.key = ForgedKey],
     [SignTemplate(MinEnrollmentFeatures, 0) EXCEPT !.algorithm = None]}

InitEnvelope ==
    /\ \E e \in StoredEnvelopes :
          users = {IF u.id = 1 THEN [u EXCEPT !.tmpl = e] ELSE u
                     : u \in EnrolledUsers}
    /\ sessions = {}
    /\ now = 0
    /\ nextUserId = 3
    /\ nextSessionId = 1
    /\ cproc = [p \in CreateProcs |-> IdleCreate]
    /\ lproc = [p \in LoginProcs |-> IdleLogin]
    /\ dproc = IdleDelete
    /\ last = Resp(None, None)
    /\ revoked = {}
    /\ match = NoMatching
    /\ child = NoChild

\* Logins against stored envelopes of every kind.
NextEnvelope ==
    \/ \E p \in LoginProcs, e \in Emails \cup {None}, n \in Nicks \cup {None},
          i \in Images \cup {NoImage} : LoginCall(p, e, n, i)
    \/ \E p \in LoginProcs, ok \in BOOLEAN, nf \in LoginFeatureCounts :
          LoginExtract(p, ok, nf)
    \/ \E p \in LoginProcs, ok \in BOOLEAN, sim \in Similarities,
          m \in GoodMatches : LoginCompare(p, ok, sim, m)
    \/ \E p \in LoginProcs : LoginInsert(p)
    \/ \E id \in UserIds : InativarUser(id)
    \/ Tick
    \/ Respond

SpecEnvelope == InitEnvelope /\ [][NextEnvelope]_vars

\* A login of the histogram service or of the binary service at its
\* comparison: any stored template, any template of a login image.
InitMatcher ==
    /\ users = {}
    /\ sessions = {}
    /\ now = 0
    /\ nextUserId = 1
    /\ nextSessionId = 1
    /\ cproc = [p \in CreateProcs |-> IdleCreate]
    /\ lproc = [p \in LoginProcs |-> IdleLogin]
    /\ dproc = IdleDelete
    /\ last = Resp(None, None)
    /\ revoked = {}
    /\ \/ \E a \in HistogramTemplates \cup ForeignTemplates,
             b \in HistogramTemplates :
            match = [NoMatching EXCEPT !.fn = "compareTemplates",
                                       !.a = a, !.b = b]
       \/ \E a \in BinaryTemplates \cup ForeignTemplates,
             b \in BinaryTemplates :
            match = [NoMatching EXCEPT !.fn = "compareBinaryTemplates",
                                       !.a = a, !.b = b]
       \/ \E a \in EnrolledBinaryTemplates \cup ForeignTemplates,
             b \in ImageHistograms :
            match = [NoMatching EXCEPT !.fn = "createBinaryTemplate",
                                       !.a = a, !.b = b]
    /\ child = NoChild

NextMatcher ==
    \/ HistogramCompare
    \/ BinaryCompare
    \/ BinaryLogin

SpecMatcher == InitMatcher /\ [][NextMatcher]_vars

\* One call of extractSIFTFeatures after another, whatever the child does.
NextExtract ==
    \/ \E started \in BOOLEAN : ExtractCall(started)
    \/ \E chunk \in Chunks : StdoutData(chunk)
    \/ StderrData
    \/ \E code \in ExitCodes : ChildClose(code)
    \/ ChildError
    \/ ExtractReturn

SpecExtract == Init /\ [][NextExtract]_vars

\* The store after the first enrollment at time 0.
InitService ==
    /\ users = {u \in EnrolledUsers : u.id = 1}
    /\ sessions = {}
    /\ now = 0
    /\ nextUserId = 2
    /\ nextSessionId = 1
    /\ cproc = [p \in CreateProcs |-> IdleCreate]
    /\ lproc = [p \in LoginProcs |-> IdleLogin]
    /\ dproc = IdleDelete
    /\ last = Resp(None, None)
    /\ revoked = {}
    /\ match = NoMatching
    /\ child = NoChild

\* Enrollment and login side by side.
NextService ==
    \/ \E p \in CreateProcs, e \in Emails, n \in Nicks, r \in RoleInputs,
          i \in Images \cup {NoImage} : CreateCall(p, e, n, r, i)
    \/ \E p \in CreateProcs, ok \in BOOLEAN, nf \in EnrollFeatureCounts :
          CreateExtract(p, ok, nf)
    \/ \E p \in CreateProcs : CreateInsert(p)
    \/ \E p \in LoginProcs, e \in Emails \cup {None}, n \in Nicks \cup {None},
          i \in Images \cup {NoImage} : LoginCall(p, e, n, i)
    \/ \E p \in LoginProcs, ok \in BOOLEAN, nf \in LoginFeatureCounts :
          LoginExtract(p, ok, nf)
    \/ \E p \in LoginProcs, ok \in BOOLEAN, sim \in Similarities,
          m \in GoodMatches : LoginCompare(p, ok, sim, m)
    \/ \E p \in LoginProcs : LoginInsert(p)
    \/ Tick
    \/ Respond

SpecService == InitService /\ [][NextService]_vars

\* The same with what the service and the database do by themselves: an
\* insert is answered and an answer is sent.  Nothing makes the child
\* process of an extraction or of a comparison close.
SpecLive ==
    /\ InitService
    /\ [][NextService]_vars
    /\ WF_vars(Respond)
    /\ \A p \in CreateProcs : WF_vars(CreateInsert(p))
    /\ \A p \in LoginProcs : WF_vars(LoginInsert(p))

\* Enrollment and the changes of a profile.
NextProfile ==
    \/ \E p \in CreateProcs, e \in Emails, n \in Nicks, r \in RoleInputs,
          i \in Images \cup {NoImage} : CreateCall(p, e, n, r, i)
    \/ \E p \in CreateProcs, ok \in BOOLEAN, nf \in EnrollFeatureCounts :
          CreateExtract(p, ok, nf)
    \/ \E p \in CreateProcs : CreateInsert(p)
    \/ \E id \in UserIds \cup {0}, data \in UpdateBodies : UpdateUser(id, data)
    \/ \E id \in UserIds : InativarUser(id)
    \/ Respond

SpecProfile == InitService /\ [][NextProfile]_vars

\* The bodies of an updateUser that tries to replace the stored envelope.
RenewalBodies ==
    {d \in UpdateBodies :
        d.email = None /\ d.nick = None /\ d.role = NoRole /\ ~d.name}

\* Everything that writes a user row, next to the logins and the clock.
NextRenewal ==
    \/ \E p \in CreateProcs, e \in Emails, i \in Images :
          CreateCall(p, e, "n2", 1, i)
    \/ \E p \in CreateProcs, ok \in BOOLEAN : CreateExtract(p, ok, 50)
    \/ \E p \in CreateProcs : CreateInsert(p)
    \/ \E p \in LoginProcs, e \in Emails, i \in Images :
          LoginCall(p, e, None, i)
    \/ \E p \in LoginProcs, ok \in BOOLEAN : LoginExtract(p, ok, 30)
    \/ \E p \in LoginProcs, ok \in BOOLEAN : LoginCompare(p, ok, 30, 15)
    \/ \E p \in LoginProcs : LoginInsert(p)
    \/ \E id \in UserIds, data \in RenewalBodies : UpdateUser(id, data)
    \/ \E id \in UserIds : DeleteUserSessions(id) /\ UNCHANGED revoked
    \/ DeleteUserRow /\ UNCHANGED revoked
    \/ Tick /\ now' \in {1, TemplateLifetime}
    \/ Respond

SpecRenewal == InitService /\ [][NextRenewal]_vars

(***************************************************************************)
(* Properties                                                              *)
(***************************************************************************)
\* A token signed with the refresh secret and not yet expired.
ValidRefresh(t) ==
    t.key = JWT_REFRESH_SECRET /\ now < t.iat + RefreshLifetime

Stored(t) == \E s \in sessions : s.refreshtoken = t

RevokedBy(t, by) == [tok |-> t, by |-> by] \in revoked

\* C1: once logout(t) has deleted the session of a token t issued by a
\* login, every later refresh(t) fails with SessionNotFoundError while t is
\* still rightly signed and unexpired.
C1_RefreshAfterLogoutIsSessionNotFound ==
    [][\A t \in TokenInputs :
         (RefreshToken(t) /\ RevokedBy(t, "logout") /\ ValidRefresh(t))
         => last'.res = "SessionNotFoundError"]_vars

\* C2: refresh(t) answers with a new access token exactly when t verifies
\* under the refresh secret and a session row holds t; a rightly signed
\* token without a row gets the same refusal as a revoked one.
C2_RefreshIffVerifiedAndStored ==
    [][\A t \in TokenInputs :
         RefreshToken(t) =>
           /\ (last'.res = "ok") <=> (ValidRefresh(t) /\ Stored(t))
           /\ last'.res = "ok" =>
                /\ last'.access.key = JWT_SECRET_ACCESS
                /\ last'.access.iat = now
                /\ \E s \in sessions : /\ s.refreshtoken = t
                                       /\ last'.access.userpk = s.userId
           /\ (t # NoToken /\ ValidRefresh(t) /\ ~Stored(t)) =>
                /\ last'.res = "InvalidTokenError"
                /\ last'.access = NoToken]_vars

C2_Witness ==
    /\ last.op = "refreshToken"
    /\ last.res = "InvalidTokenError"
    /\ ValidRefresh(last.arg)
    /\ ~Stored(last.arg)
    /\ nextSessionId = 1

\* C3: after logoutAll(u), refresh(t) fails for every token t that the
\* sweep removed.
C3_RefreshAfterLogoutAllFails ==
    [][\A t \in TokenInputs :
         (RefreshToken(t) /\ RevokedBy(t, "logoutAll"))
         => last'.res # "ok"]_vars

\* C4: a session is never re-activated: no session row holds a token whose
\* session has been deleted.
C4_NoReactivation ==
    \A s \in sessions : \A r \in revoked : r.tok # s.refreshtoken

\* C5: no two user rows share an email or a nickname, and a createUser
\* call succeeds only if no row with its email or nickname is in the store
\* when it inserts, so of the concurrent calls that share one at most one
\* succeeds.
UsersUnique(store) ==
    \A u \in store : \A v \in store :
        u # v => (u.email # v.email /\ u.nick # v.nick /\ u.id # v.id)

C5_UniqueUsers ==
    [][/\ UsersUnique(users')
       /\ \A p \in CreateProcs :
            (CreateInsert(p) /\ last'.res = "ok") =>
               /\ \A u \in users : /\ u.email # cproc[p].email
                                   /\ u.nick # cproc[p].nick
               /\ Cardinality(users') = Cardinality(users) + 1
       /\ \A p \in CreateProcs :
            (CreateInsert(p) /\ last'.res # "ok") => users' = users]_vars

C5_Witness ==
    /\ last.op = "createUser"
    /\ last.res = "UniqueConstraintFailed"
    /\ users # {}

\* C6: a createUser whose insert is refused by a unique index ends with
\* DuplicateError.
C6_InsertRefusalIsDuplicateError ==
    [][\A p \in CreateProcs :
         (CreateInsert(p) /\ \E u \in users : \/ u.email = cproc[p].email
                                              \/ u.nick = cproc[p].nick)
         => last'.res = "DuplicateError"]_vars

\* C7: createUser with an email or a nickname of an existing user ends with
\* DuplicateError whatever the role, creates no user and does not reach
\* the extraction.
C7_DuplicateRejected ==
    [][\A p \in CreateProcs, e \in Emails, n \in Nicks, r \in RoleInputs,
          i \in Images :
         (CreateCall(p, e, n, r, i)
            /\ \E u \in users : u.email = e \/ u.nick = n)
         => /\ last'.res = "DuplicateError"
            /\ last'.op = "createUser"
            /\ users' = users
            /\ cproc'[p].pc = "idle"]_vars

C7_Witness ==
    /\ last.op = "createUser"
    /\ last.res = "DuplicateError"
    /\ \A p \in CreateProcs : cproc[p].pc = "idle"

\* C8: a loginUser call that succeeds adds exactly one session row, owned
\* by the looked-up user, holding the returned refresh token and expiring
\* 10 days after the login; every other step of a login leaves the
\* sessions unchanged, and no step of a login changes the users.
LoginStep == lproc' # lproc \/ last'.op = "loginUser"

EnvelopeOk(u) ==
    /\ u.tmpl.key = JWT_TEMPLATE_SECRET
    /\ now < u.tmpl.iat + TemplateLifetime
    /\ u.tmpl.algorithm = "SIFT"

Matching(e, n) ==
    {u \in users : (e # None /\ u.email = e) \/ (n # None /\ u.nick = n)}

C9_LoginCheckOrder ==
    [][/\ \A p \in LoginProcs, e \in Emails \cup {None},
            n \in Nicks \cup {None}, i \in Images :
            (LoginCall(p, e, n, i) /\ ~(e = None /\ n = None)) =>
              /\ Matching(e, n) = {} => last'.res = "NotFoundError"
              /\ (Matching(e, n) # {} /\ \A u \in Matching(e, n) : ~u.active)
                   => (last'.res = "InactiveError" /\ lproc'[p].pc = "idle")
              /\ (Matching(e, n) # {}
                    /\ \A u \in Matching(e, n) : u.active /\ ~EnvelopeOk(u))
                   => (last'.res = "CorruptTemplateError"
                       /\ lproc'[p].pc = "idle")
              /\ lproc'[p].pc = "extract" =>
                   /\ lproc'[p].user \in Matching(e, n)
                   /\ lproc'[p].user.active
                   /\ EnvelopeOk(lproc'[p].user)
       /\ (last'.op = "loginUser" /\ last'.res = "NoMatchError") =>
            \E p \in LoginProcs : /\ lproc[p].pc = "compare"
                                  /\ lproc'[p].pc = "idle"
                                  /\ lproc[p].user.active
                                  /\ ~(lproc[p].nf < MinLoginFeatures)
       /\ \A p \in LoginProcs :
            lproc'[p].pc = "compare" => lproc[p].pc \in {"extract", "compare"}
       /\ \A p \in LoginProcs :
            lproc'[p].pc = "extract" => lproc[p].pc \in {"idle", "extract"}]_vars

C9_Witness ==
    /\ last.op = "loginUser"
    /\ last.res = "InactiveError"
    /\ \A u \in users : ~u.active /\ ~EnvelopeOk(u)
    /\ users # {}

C11_QualityGate ==
    [][/\ MinEnrollmentFeatures >= MinLoginFeatures
       /\ \A p \in CreateProcs, nf \in EnrollFeatureCounts :
            (CreateExtract(p, TRUE, nf) /\ nf < 50) =>
               /\ last'.op = "createUser"
               /\ last'.res = "InsufficientQualityError"
               /\ cproc'[p].pc = "idle"
               /\ users' = users
       /\ \A p \in LoginProcs, nf \in LoginFeatureCounts :
            (LoginExtract(p, TRUE, nf) /\ nf < 30) =>
               /\ last'.op = "loginUser"
               /\ last'.res = "InsufficientQualityError"
               /\ lproc'[p].pc = "idle"
               /\ sessions' = sessions
       /\ \A p \in CreateProcs :
            cproc'[p].pc = "insert" => cproc'[p].tmpl.template >= 50
       /\ \A p \in LoginProcs :
            lproc'[p].pc \in {"compare", "insert"} => lproc'[p].nf >= 30]_vars

C11_Witness ==
    /\ last.op = "loginUser"
    /\ last.res = "InsufficientQualityError"
    /\ Cardinality(users) = 2

\* C12: a createUser that succeeds adds exactly one user row, active and
\* holding the profile fields of the call; a createUser that fails leaves
\* the users unchanged; no step of a createUser changes the sessions.
CreateStep == cproc' # cproc \/ last'.op = "createUser"

C12_CreateUserEffect ==
    [][/\ CreateStep =>
            /\ sessions' = sessions
            /\ IF last'.op = "createUser" /\ last'.res = "ok"
                 THEN \E row \in users' :
                        /\ row \notin users
                        /\ users' = users \cup {row}
                        /\ row.active = TRUE
                        /\ row = last'.user
                        /\ \A u \in users : u.id # row.id
                        /\ \E p \in CreateProcs :
                               /\ cproc[p].pc = "insert"
                               /\ cproc'[p].pc = "idle"
                               /\ row.email = cproc[p].email
                               /\ row.nick = cproc[p].nick
                               /\ row.role = cproc[p].role
                               /\ row.tmpl = cproc[p].tmpl
                 ELSE users' = users
       /\ \A p \in CreateProcs, e \in Emails, n \in Nicks, r \in RoleInputs,
             i \in Images \cup {NoImage} :
            (CreateCall(p, e, n, r, i) /\ cproc'[p].pc # "idle") =>
               /\ cproc'[p].email = e
               /\ cproc'[p].nick = n
               /\ cproc'[p].role = r
       /\ \A p \in CreateProcs :
            (cproc[p].pc # "idle" /\ cproc'[p].pc # "idle") =>
               /\ cproc'[p].email = cproc[p].email
               /\ cproc'[p].nick = cproc[p].nick
               /\ cproc'[p].role = cproc[p].role]_vars

C12_Witness ==
    /\ last.op = "createUser"
    /\ last.res = "ok"
    /\ last.user \in users
    /\ sessions # {}

\* C13: every session belongs to an existing user in every state, the
\* states between the two statements of deleteUser and a concurrent login
\* of the same user included; when deleteUser(id) completes, no session
\* of id is left, none appears later, and refresh fails for every token
\* issued to that user.
Owned(rows, store) == \A s \in rows : \E u \in store : u.id = s.userId

Exists(id) == \E u \in users : u.id = id

C13_SessionsOwned ==
    [][/\ Owned(sessions', users')
       /\ (dproc.pc = "user" /\ dproc'.pc = "idle") =>
            /\ \A u \in users' : u.id # dproc.id
            /\ \A s \in sessions' : s.userId # dproc.id
       /\ \A id \in UserIds :
            (id < nextUserId /\ ~Exists(id)) =>
               /\ \A u \in users' : u.id # id
               /\ \A s \in sessions' : s.userId # id /\ s.refreshtoken.userpk # id
       /\ \A t \in TokenInputs :
            (RefreshToken(t) /\ ~Exists(t.userpk)) => last'.res # "ok"]_vars

C13_Witness ==
    /\ last.op = "loginUser"
    /\ last.res = "ForeignKeyFailed"
    /\ dproc.pc = "idle"
    /\ sessions # {}

\* C14: no two session rows hold the same refresh token, also when two
\* logins of one user fall in the same second and sign the same token:
\* the insert of a token that a row already holds is refused.
TokensUnique(rows) ==
    \A r1 \in rows : \A r2 \in rows :
        r1.refreshtoken = r2.refreshtoken => r1 = r2

C14_RefreshTokensUnique ==
    [][/\ TokensUnique(sessions')
       /\ \A p \in LoginProcs :
            (LoginInsert(p) /\ Stored(lproc[p].refreshToken)) =>
               /\ sessions' = sessions
               /\ last'.op = "loginUser"
               /\ last'.res # "ok"]_vars

C14_Witness ==
    /\ last.op = "loginUser"
    /\ last.res = "UniqueConstraintFailed"
    /\ \E s \in sessions : s.refreshtoken.iat = now

C16_RefreshIssuesAccessOnly ==
    [][\A t \in TokenInputs :
         RefreshToken(t) =>
           /\ sessions' = sessions
           /\ users' = users
           /\ now' = now
           /\ last'.op = "refreshToken"
           /\ last'.tok = NoToken
           /\ last'.res = "ok" =>
                /\ last'.access.key = JWT_SECRET_ACCESS
                /\ \E s \in sessions' : s.refreshtoken = t
           /\ last'.res # "ok" => last'.access = NoToken]_vars

C16_Witness ==
    /\ last.op = "refreshToken"
    /\ last.res = "ok"
    /\ last.access.iat > last.arg.iat
    /\ Stored(last.arg)

\* C17: the role of every user is 1, 2 or 3 in every state: createUser
\* with another role ends with ValidationError and creates no user, and
\* updateUser never stores a role outside 1, 2, 3.
C17_RoleInvariant ==
    [][/\ \A u \in users' : u.role \in {1, 2, 3}
       /\ \A p \in CreateProcs, e \in Emails, n \in Nicks, r \in RoleInputs,
             i \in Images :
            (CreateCall(p, e, n, r, i) /\ r \notin {1, 2, 3}
               /\ \A u \in users : u.email # e /\ u.nick # n)
            => /\ last'.res = "ValidationError"
               /\ users' = users
               /\ cproc'[p].pc = "idle"]_vars

\* C18: no updateUser call changes the nickname, the email or the envelope
\* of a user, whatever the request body names, and a call whose body names
\* none but protected fields fails and changes nothing.
ProtectedOnlyBodies ==
    [email : {None, "e2"}, nick : {None, "n2"},
     tmpl : {NoToken, ForgedTemplate}, role : {NoRole},
     active : {NoFlag}, name : {FALSE}]

C19_AccessTokenClaims ==
    last.access # NoToken =>
        {"userpk", "usernickname", "userrole"} \subseteq DOMAIN last.access

\* C20: the kinds of token are not interchangeable: authenticaAccessToken
\* accepts no refresh token and no envelope, refreshToken accepts no
\* access token and no envelope.
IsEnvelope(t) == "template" \in DOMAIN t

IsAccess(t) == "usernickname" \in DOMAIN t

IsRefresh(t) == t # NoToken /\ ~IsEnvelope(t) /\ ~IsAccess(t)

C20_TokenKindsApart ==
    [][\A t \in AnyTokens :
         /\ (AuthenticaAccessToken(t) /\ (IsRefresh(t) \/ IsEnvelope(t))) =>
               last'.res = "InvalidToken"
         /\ (RefreshToken(t) /\ (IsAccess(t) \/ IsEnvelope(t))) =>
               /\ last'.res = "InvalidTokenError"
               /\ last'.access = NoToken]_vars

C20_Witness ==
    /\ last.op = "authenticaAccessToken"
    /\ last.res = "InvalidToken"
    /\ IsRefresh(last.arg)
    /\ ValidRefresh(last.arg)
    /\ Stored(last.arg)

\* C21: an access token with a right signature is accepted by
\* authenticaAccessToken before its expiry, 25 minutes after its issue, and
\* refused from then on: the guarded handler is not called.
C21_AccessTokenExpiry ==
    [][\A t \in GuardTokens :
         (AuthenticaAccessToken(t) /\ t # NoToken
            /\ t.key = JWT_SECRET_ACCESS) =>
           /\ (last'.res = "ok") <=> (now < t.iat + 1500)
           /\ last'.res # "ok" => last'.res = "InvalidToken"
           /\ last'.op = "authenticaAccessToken"]_vars

C21_Witness ==
    /\ last.op = "authenticaAccessToken"
    /\ last.res = "InvalidToken"
    /\ last.arg.key = JWT_SECRET_ACCESS
    /\ now = last.arg.iat + 1501
    /\ \E p \in LoginProcs : lproc[p].accessToken = last.arg

\* C22: the decoding of the stored envelope at login fails with
\* CorruptTemplateError, before extraction, comparison and session
\* creation, when the signature of the envelope is invalid, when the
\* envelope is past its expiry, and when its algorithm tag is not SIFT; it
\* succeeds only when none of the three holds.
BadSignature(u) == u.tmpl.key # JWT_TEMPLATE_SECRET

Expired(u) == now >= u.tmpl.iat + 31536000

BadTag(u) == u.tmpl.algorithm # "SIFT"

Mismatched(a, b) ==
    \/ a.tag # b.tag
    \/ Len(a.data) # Len(b.data)
    \/ Len(a.data) # 256

C23_MismatchIsError ==
    (match.res # None /\ Mismatched(match.a, match.b)) =>
        /\ match.out.kind # "score"
        /\ match.res = "AlgorithmMismatchError"

\* C24: a valid template compared with itself has similarity exactly 1, in
\* the histogram matcher and in the binary matcher, and the histogram
\* matcher gives 1 only to two equal vectors.
ValidPair ==
    /\ match.res # None
    /\ \/ match.a \in HistogramTemplates /\ match.b \in HistogramTemplates
       \/ match.a \in BinaryTemplates /\ match.b \in BinaryTemplates

C24_Identity ==
    ValidPair =>
        /\ match.a = match.b => match.out = Score(1000)
        /\ (match.fn = "compareTemplates" /\ match.out.value = 1000)
              => match.a = match.b

C24_Witness ==
    /\ ValidPair
    /\ match.fn = "compareBinaryTemplates"
    /\ match.a = match.b
    /\ match.a.data[1] = 1
    /\ match.res = "accepted"

\* C25: the similarity of two valid templates lies between 0 and 1, and
\* in the histogram matcher a pair of vectors farther apart never has the
\* higher similarity nor the same.
C25_Bounded ==
    ValidPair =>
        /\ match.out.kind = "score"
        /\ 0 <= match.out.value
        /\ match.out.value <= 1000
        /\ match.fn = "compareTemplates" =>
              \A c \in HistogramTemplates, d \in HistogramTemplates :
                 SumOfSquares(c.data, d.data, 256)
                   > SumOfSquares(match.a.data, match.b.data, 256)
                 => compareTemplates(c, d) < match.out.value

C25_Witness ==
    /\ ValidPair
    /\ match.fn = "compareTemplates"
    /\ 0 < match.out.value
    /\ match.out.value < 500
    /\ match.res = "NoMatchError"

\* C26: the answer to a login rejected by the match decision tells nothing
\* of the score: it is the same answer whatever the similarity and the
\* number of matches were, and whoever the user is.
C26_RejectionHidesScore ==
    [][\A p \in LoginProcs, sim \in Similarities, m \in GoodMatches :
         (LoginCompare(p, TRUE, sim, m) /\ (sim < 30 \/ m < 15)) =>
           /\ last' = [op |-> "loginUser", res |-> "NoMatchError",
                       user |-> NoUser, tok |-> NoToken, access |-> NoToken,
                       expiresAt |-> 0, arg |-> NoToken,
                       biometricInfo |->
                           [similarity |-> 0, matches |-> 0, features |-> 0]]
           /\ lproc'[p] = IdleLogin]_vars

C26_Witness ==
    /\ last.op = "loginUser"
    /\ last.res = "NoMatchError"
    /\ last.biometricInfo = NoInfo
    /\ \E p \in LoginProcs :
          lproc[p].pc = "insert" /\ lproc[p].similarity = SIMILARITY_THRESHOLD

\* C27: a createUser or loginUser call that waits for the feature
\* extractor does not wait for ever: also when the child process never
\* closes, the call leaves the extraction (with ExtractionTimeoutError).
C27_ExtractionBounded ==
    /\ \A p \in CreateProcs :
          (cproc[p].pc = "extract") ~> (cproc[p].pc # "extract")
    /\ \A p \in LoginProcs :
          (lproc[p].pc = "extract") ~> (lproc[p].pc # "extract")

\* C28: the envelope is never returned to a caller: the user returned by
\* a successful createUser or loginUser has no fingerprintTemplate.
C28_EnvelopeNotReturned ==
    (last.op \in {"createUser", "loginUser"} /\ last.res = "ok") =>
        last.user.tmpl = NoToken

\* C29: logoutAll(u) and a login of u in flight are not ordered: the sweep
\* removes the sessions u has at that moment, those of a login that has
\* already inserted included, and leaves a login that has not yet inserted
\* untouched, whose insert then succeeds and stays; either way the login
\* returns its tokens, and no step touches the sessions of another user.
C29_LogoutAllRace ==
    [][/\ \A id \in UserIds :
            LogoutAll(id) =>
               /\ sessions' = {s \in sessions : s.userId # id}
               /\ lproc' = lproc
               /\ users' = users
       /\ \A p \in LoginProcs :
            (LoginInsert(p) /\ ~Stored(lproc[p].refreshToken)) =>
               /\ last'.op = "loginUser"
               /\ last'.res = "ok"
               /\ last'.tok = lproc[p].refreshToken
               /\ last'.access = lproc[p].accessToken
               /\ \E row \in sessions' :
                      /\ row.refreshtoken = last'.tok
                      /\ row.userId = lproc[p].user.id
                      /\ sessions' = sessions \cup {row}
       /\ \A s \in sessions :
            s \in sessions' \/ (last'.op = "logoutAll"
                                   /\ last'.user.id = s.userId)]_vars

C29_Witness ==
    /\ last.op = "logoutAll"
    /\ \E r \in revoked : r.by = "logoutAll" /\ r.tok.userpk = last.user.id
    /\ \E p \in LoginProcs :
          /\ lproc[p].pc = "insert"
          /\ lproc[p].user.id = last.user.id
          /\ ~RevokedBy(lproc[p].refreshToken, "logoutAll")
    /\ nextSessionId <= MaxSessionId

\* C30: deactivation is permanent: inativarUser alone changes the active
\* flag of a user, and no step makes a deactivated user active again.
C30_DeactivationPermanent ==
    [][/\ \A u \in users : \A v \in users' :
            (v.id = u.id /\ ~u.active) => ~v.active
       /\ \A u \in users : \A v \in users' :
            (v.id = u.id /\ v.active # u.active) => last'.op = "inativarUser"]_vars

\* C31: inativarUser(id) changes the active flag of the user id and
\* nothing else: it deletes no session, so a refresh token issued before
\* the deactivation still yields access tokens afterwards, while a login
\* of the deactivated user fails.
C31_InativarFrame ==
    [][/\ \A id \in UserIds :
            InativarUser(id) =>
               /\ sessions' = sessions
               /\ users' = {IF u.id = id THEN [u EXCEPT !.active = FALSE]
                                         ELSE u : u \in users}
               /\ lproc' = lproc
       /\ \A t \in TokenInputs :
            (RefreshToken(t) /\ ValidRefresh(t)
               /\ \E s \in sessions :
                      /\ s.refreshtoken = t
                      /\ \E u \in users : u.id = s.userId /\ ~u.active)
            => /\ last'.res = "ok"
               /\ last'.access.key = JWT_SECRET_ACCESS
               /\ last'.access.userpk = t.userpk
       /\ \A p \in LoginProcs, e \in Emails \cup {None},
             n \in Nicks \cup {None}, i \in Images :
            (LoginCall(p, e, n, i) /\ Matching(e, n) # {}
               /\ \A u \in Matching(e, n) : ~u.active)
            => /\ last'.res = "InactiveError"
               /\ lproc'[p].pc = "idle"]_vars

C31_Witness ==
    /\ last.op = "refreshToken"
    /\ last.res = "ok"
    /\ \E s \in sessions :
          /\ s.refreshtoken = last.arg
          /\ \E u \in users : u.id = s.userId /\ ~u.active

\* C32: what authenticaAccessToken answers is a function of the token and
\* of the clock alone, never of the users or of the sessions: an unexpired
\* access token is accepted also after the logout, the logoutAll, the
\* deactivation or the deletion of its user.
C32_AccessTokenStateless ==
    [][\A t \in HeldAccessTokens :
         AuthenticaAccessToken(t) =>
           /\ last'.res =
                 IF t = NoToken THEN "TokenRequired"
                 ELSE IF t.key = JWT_SECRET_ACCESS /\ now < t.iat + 1500
                   THEN "ok"
                 ELSE "InvalidToken"
           /\ users' = users
           /\ sessions' = sessions]_vars

C32_Witness ==
    /\ last.op = "authenticaAccessToken"
    /\ last.res = "ok"
    /\ \A u \in users : u.id # last.arg.userpk
    /\ \A s \in sessions : s.userId # last.arg.userpk
    /\ users # {}
(***************************************************************************)
(* C33: logout(t) deletes the sessions whose refreshtoken is t, at most    *)
(* one row, and nothing else: every other session and every user row stay  *)
(* as they were.  It answers success for every non-empty token, verified   *)
(* or not, stored or not, and fails only for the empty token.  After the   *)
(* call no session holds t, so a second call changes nothing.              *)
(***************************************************************************)
C33_LogoutFrame ==
    [][last'.op = "logout" =>
        \A t \in TokenInputs :
          Logout(t) =>
            /\ users' = users
            /\ IF t = NoToken
                 THEN /\ last'.res = "TokenRequired"
                      /\ sessions' = sessions
                 ELSE /\ last'.res = "ok"
                      /\ sessions' = {s \in sessions : s.refreshtoken # t}
                      /\ Cardinality(sessions \ sessions') <= 1
                      /\ sessions' \ {s \in sessions' : s.refreshtoken = t}
                           = sessions']_vars

\* A logout has succeeded, a session it removed is in the history and a
\* session of another token is still stored.
C33_Witness ==
    /\ last.op = "logout"
    /\ last.res = "ok"
    /\ \E r \in revoked : r.by = "logout"
    /\ sessions # {}

(***************************************************************************)
(* C34: logoutAll(u) deletes exactly the sessions whose userId is u.       *)
(* After the call no session of u is stored, every session of another      *)
(* user is stored as before and its refresh token is as valid as before,   *)
(* no user row has changed, and the answer is success whether or not u     *)
(* had a session.                                                          *)
(***************************************************************************)
C34_LogoutAllFrame ==
    [][last'.op = "logoutAll" =>
        \A id \in UserIds :
          LogoutAll(id) =>
            /\ last'.res = "ok"
            /\ users' = users
            /\ \A s \in sessions' : s.userId # id
            /\ \A s \in sessions :
                  s.userId # id =>
                     /\ s \in sessions'
                     /\ (ValidRefresh(s.refreshtoken) /\ Stored(s.refreshtoken))'
                          = (ValidRefresh(s.refreshtoken)
                               /\ Stored(s.refreshtoken))
            /\ sessions' \subseteq sessions]_vars

\* A sweep has removed a session of its user while a session of another
\* user, whose refresh token is still good, stays stored.
C34_Witness ==
    /\ last.op = "logoutAll"
    /\ last.res = "ok"
    /\ \E r \in revoked : r.by = "logoutAll" /\ r.tok.userpk = last.user.id
    /\ \E s \in sessions :
          /\ s.userId # last.user.id
          /\ ValidRefresh(s.refreshtoken)

C36_ExtractSettlesOnce ==
    /\ ~child.uncaught
    /\ child.settled <= 1
    /\ child.pc \in {"closed", "errored"} =>
          /\ child.settled = 1
          /\ child.promise \in {"resolved", "rejected"}
          /\ child.promise = "resolved" <=>
                /\ child.pc = "closed"
                /\ child.code = 0
                /\ child.outputData \in {<<"{success:true", "}">>}

(***************************************************************************)
(* C37: in the histogram service the templates are vectors of 256 pixel    *)
(* counts, so two different templates are at a squared distance of at      *)
(* least 1 and score at most 1/2.  With the threshold 0.95 the login is    *)
(* accepted exactly when the login histogram equals the stored one in      *)
(* every bin.                                                              *)
(***************************************************************************)
C37_HistogramExactMatch ==
    (/\ match.fn = "compareTemplates"
     /\ match.res # None
     /\ match.a \in HistogramTemplates
     /\ match.b \in HistogramTemplates) =>
        /\ match.a # match.b =>
              /\ SumOfSquares(match.a.data, match.b.data, 256) >= 1
              /\ match.out.value <= 500
        /\ match.res = "accepted" <=>
              \A i \in 1..256 : match.a.data[i] = match.b.data[i]

\* Two histograms one pixel apart in one bin have been compared: the score
\* is 1/2 and the login is refused.
C37_Witness ==
    /\ match.fn = "compareTemplates"
    /\ match.a \in HistogramTemplates
    /\ match.b \in HistogramTemplates
    /\ SumOfSquares(match.a.data, match.b.data, 256) = 1
    /\ match.out = Score(500)
    /\ match.res = "NoMatchError"

(***************************************************************************)
(* C38: in the binary service the template of an image has one entry per   *)
(* bin of its histogram, 1 where the bin holds more than 500 pixels and 0  *)
(* elsewhere; the score of a login is the number of positions where the    *)
(* stored template and the template of the login image agree, over 256,    *)
(* and 0 when the stored one has another length; the login is accepted     *)
(* exactly when at least 218 of the 256 positions agree.  Two images with  *)
(* no bin above 500 always match.                                          *)
(***************************************************************************)
Agreeing(stored, histogram) ==
    Cardinality({i \in 1..256 :
                    (stored[i] = 1) <=> (histogram[i] >= 501)})

C38_BinaryLogin ==
    (match.fn = "createBinaryTemplate" /\ match.res # None) =>
        LET t == createBinaryTemplate(match.b.data, 500) IN
        /\ Len(t) = Len(match.b.data)
        /\ \A i \in 1..Len(t) :
              /\ t[i] \in {0, 1}
              /\ t[i] = 1 <=> match.b.data[i] >= 501
        /\ IF match.a.tag = "binary" /\ Len(match.a.data) = 256
             THEN /\ match.out.value
                       = (1000 * Agreeing(match.a.data, match.b.data)) \div 256
                  /\ match.res = "accepted"
                       <=> Agreeing(match.a.data, match.b.data) >= 218
                  /\ ((\A i \in 1..256 : match.b.data[i] <= 500)
                        /\ \A i \in 1..256 : match.a.data[i] = 0)
                       => match.res = "accepted"
             ELSE match.a.tag = "binary" =>
                     (match.out.value = 0 /\ match.res = "NoMatchError")

\* A login whose image has 38 bins above 500 against a stored template of
\* an image with none: 218 positions agree, the login is accepted.
C38_Witness ==
    /\ match.fn = "createBinaryTemplate"
    /\ match.res = "accepted"
    /\ \A i \in 1..256 : match.a.data[i] = 0
    /\ Cardinality({i \in 1..256 : match.b.data[i] > 500}) = 38
    /\ \E i \in 1..256 : match.b.data[i] = 500

====
